---- MODULE Spec2Model ----
(***************************************************************************)
(* A model of godaq: the OpenDAQ device facade (opendaq.go), its command   *)
(* dispatcher with retries under a mutex, and the hardware model "S"       *)
(* (calibration-index function and input validation).                      *)
(***************************************************************************)
EXTENDS Integers, Sequences, FiniteSets, TLC

(***************************************************************************)
(* Program constants                                                       *)
(***************************************************************************)
\* Color codes (opendaq.go, const block of type Color)
OFF == 0
GREEN == 1
RED == 2
YELLOW == 3

\* Opcodes
AIN == 1
AIN_CFG == 2
PIO == 3
PIO_DIR == 5
PORT == 7
PORT_DIR == 9
SET_DAC == 13
LED_W == 18
GET_CALIB == 36
ID_CONFIG == 39

\* sendCommand: "return attempt < 8, e"
MaxAttempts == 8

\* SetId: "id > 1000"
MaxId == 1000

\* The largest uint8 (SetPortDir, SetPort take a uint8)
MaxByte == 255

\* Model S
ModelSId == 2
adcGainsS == <<1, 2, 4, 5, 8, 10, 16, 20>>
NLeds == 1
NPIOs == 6
NInputs == 8
NOutputs == 1
NHiddenOutputs == 0
NCalibRegs == NOutputs + 2 * NInputs
NGains == Len(adcGainsS)

\* CheckValidInputs: "neg > 8"
MaxNegInput == 8

(***************************************************************************)
(* Bounds of the model                                                     *)
(***************************************************************************)
\* Model ids the device may report in its identity reply: 1..MaxModelId
MaxModelId == 3
\* Arguments of GetCalibIndex explored by SpecIdx: n in 0..MaxN, gainId in 0..MaxGainArg
MaxN == 10
MaxGainArg == 9

\* SpecReg: init functions (model files) that run before main
MaxInits == 3

\* The concurrent callers of one Device (goroutines)
Procs == {1, 2}
NoProc == 0

(***************************************************************************)
(* Errors: records, so that any two of them can be compared                *)
(***************************************************************************)
Err(kind) == [kind |-> kind, at |-> 0]
Nil == Err("nil")
ErrUnknownModel == Err("ErrUnknownModel")
ErrInvalidLed == Err("ErrInvalidLed")
ErrInvalidColor == Err("ErrInvalidColor")
ErrInvalidInput == Err("ErrInvalidInput")
ErrInvalidOutput == Err("ErrInvalidOutput")
ErrInvalidPIO == Err("ErrInvalidPIO")
ErrInvalidGainID == Err("ErrInvalidGainID")
ErrInvalidID == Err("ErrInvalidID")
ErrInvalidPIOValue == Err("ErrInvalidPIOValue")
ErrOpenPort == Err("ErrOpenPort")
\* registerModel: errors.New("Hardware model already registered!")
ErrAlreadyRegistered == Err("Hardware model already registered!")
\* try.v1: errMaxRetriesReached
ErrMaxRetries == Err("ErrMaxRetries")
\* The transport error of the k-th attempt of a call
IoErr(k) == [kind |-> "io", at |-> k]

ValidationErrors ==
    {ErrInvalidLed, ErrInvalidColor, ErrInvalidInput, ErrInvalidOutput,
     ErrInvalidPIO, ErrInvalidGainID, ErrInvalidID, ErrInvalidPIOValue}

(***************************************************************************)
(* Hardware model S (pure functions)                                       *)
(***************************************************************************)
\* registerModel(ModelSId, NewModelS()) in init()
hwModels == {ModelSId}

IdxRes(idx, err) == [idx |-> idx, err |-> err]

\* Faulty variant: the upper bound of the input channel is not checked
GetCalibIndexNoUpper(isOutput, diffMode, secondStage, n, gainId) ==
    IF isOutput
    THEN IF n < 1 \/ n > NOutputs
         THEN IdxRes(0, ErrInvalidOutput)
         ELSE IdxRes(n - 1, Nil)
    ELSE IF n < 1 \/ secondStage
         THEN IdxRes(0, ErrInvalidInput)
         ELSE IF diffMode
              THEN IdxRes(NOutputs + NInputs + n - 1, Nil)
              ELSE IdxRes(NOutputs + n - 1, Nil)

\* Faulty variant: the differential range is not offset by NInputs
GetCalibIndexDiffOverlap(isOutput, diffMode, secondStage, n, gainId) ==
    IF isOutput
    THEN IF n < 1 \/ n > NOutputs
         THEN IdxRes(0, ErrInvalidOutput)
         ELSE IdxRes(n - 1, Nil)
    ELSE IF n < 1 \/ n > NInputs \/ secondStage
         THEN IdxRes(0, ErrInvalidInput)
         ELSE IF diffMode
              THEN IdxRes(NOutputs + n - 1, Nil)
              ELSE IdxRes(NOutputs + n - 1, Nil)

\* Faulty variant: a second-stage request is answered like a first-stage one
GetCalibIndexAnyStage(isOutput, diffMode, secondStage, n, gainId) ==
    IF isOutput
    THEN IF n < 1 \/ n > NOutputs
         THEN IdxRes(0, ErrInvalidOutput)
         ELSE IdxRes(n - 1, Nil)
    ELSE IF n < 1 \/ n > NInputs
         THEN IdxRes(0, ErrInvalidInput)
         ELSE IF diffMode
              THEN IdxRes(NOutputs + NInputs + n - 1, Nil)
              ELSE IdxRes(NOutputs + n - 1, Nil)

\* ModelS.GetCalibIndex
GetCalibIndex(isOutput, diffMode, secondStage, n, gainId) ==
    IF isOutput
    THEN IF n < 1 \/ n > NOutputs
         THEN IdxRes(0, ErrInvalidOutput)
         ELSE IdxRes(n - 1, Nil)
    ELSE IF n < 1 \/ n > NInputs \/ secondStage
         THEN IdxRes(0, ErrInvalidInput)
         ELSE IF diffMode
              THEN IdxRes(NOutputs + NInputs + n - 1, Nil)
              ELSE IdxRes(NOutputs + n - 1, Nil)

\* Faulty variant: the negative input is not checked
CheckValidInputsNoNeg(pos, neg) ==
    IF pos < 1 \/ pos > NInputs THEN ErrInvalidInput ELSE Nil

\* ModelS.CheckValidInputs
CheckValidInputs(pos, neg) ==
    IF pos < 1 \/ pos > NInputs THEN ErrInvalidInput
    ELSE IF neg > MaxNegInput THEN ErrInvalidInput
    ELSE Nil

(***************************************************************************)
(* Calibration values, in units of 2^-16 (exact for float32 here)          *)
(***************************************************************************)
Unit == 65536
Calib(gain, offset) == [Gain |-> gain, Offset |-> offset]
\* Calib{1, 0}
IdentityCalib == Calib(Unit, 0)
\* make([]Calib, n): zero values
ZeroCalib == Calib(0, 0)

\* The raw (gain, offset) fields the device holds in register nReg
DeviceRegs(nReg) == [Gain |-> 3 * nReg, Offs |-> nReg - 2]

\* Faulty variant: one offset scale for every register
DecodeCalibOneScale(nReg, raw) ==
    Calib(Unit + raw.Gain, raw.Offs)

\* readCalib: decoding of the raw fields by register class
DecodeCalib(nReg, raw) ==
    IF nReg < NOutputs + NHiddenOutputs
    THEN Calib(Unit + raw.Gain, raw.Offs)
    ELSE Calib(Unit + raw.Gain, raw.Offs * (Unit \div 32))

\* The array New leaves in daq.calib when every register was read
LoadedCalib == [i \in 1 .. NCalibRegs |-> DecodeCalib(i - 1, DeviceRegs(i - 1))]

(***************************************************************************)
(* Calls: one record per invocation of a public operation                  *)
(***************************************************************************)
Call(name, a, b, c) == [name |-> name, a |-> a, b |-> b, c |-> c]
NoCall == Call("none", 0, 0, 0)

\* The calls the callers choose from: for every operation arguments that pass
\* its validation and arguments that fail it.
ConfigureCalls ==
    {Call("ConfigureADC", 1, 0, 1), Call("ConfigureADC", 2, 3, 0),
     Call("ConfigureADC", 2, 4, 0),
     Call("ConfigureADC", 0, 0, 0), Call("ConfigureADC", 1, MaxNegInput + 1, 0),
     Call("ConfigureADC", 1, 0, NGains)}
AllCalls ==
    ConfigureCalls \cup
    {Call("SetLED", 1, GREEN, 0), Call("SetLED", 0, GREEN, 0),
     Call("SetLED", 1, YELLOW + 1, 0),
     Call("ReadADC", 0, 0, 0), Call("ReadAnalog", 0, 0, 0),
     Call("SetDAC", 1, 0, 0), Call("SetDAC", 0, 0, 0),
     Call("SetAnalog", 1, 0, 0), Call("SetAnalog", 2, 0, 0),
     Call("SetPIO", 1, 1, 0), Call("SetPIO", NPIOs + 1, 1, 0),
     Call("SetPIODir", NPIOs, 1, 0), Call("SetPIODir", 0, 1, 0),
     Call("ReadPIO", 1, 0, 0), Call("ReadPIO", NPIOs + 1, 0, 0),
     Call("SetPortDir", 0, 0, 0), Call("SetPortDir", 255, 0, 0),
     Call("ReadPort", 0, 0, 0),
     Call("SetPort", 2 ^ NPIOs - 1, 0, 0), Call("SetPort", 2 ^ NPIOs, 0, 0),
     Call("SetId", MaxId, 0, 0), Call("SetId", MaxId + 1, 0, 0),
     Call("GetInfo", 0, 0, 0)}
\* The second and later callers run the operations that touch the input
\* configuration, and one plain command.
RacingCalls ==
    ConfigureCalls \cup {Call("ReadAnalog", 0, 0, 0), Call("SetLED", 1, GREEN, 0)}
CallsOf(p) == IF p = 1 THEN AllCalls ELSE RacingCalls

(***************************************************************************)
(* Validation of the public operations                                     *)
(***************************************************************************)
\* SetLED
ValidateSetLED(n, c) ==
    IF n < 1 \/ n > NLeds THEN ErrInvalidLed
    ELSE IF c > 3 THEN ErrInvalidColor
    ELSE Nil

\* Faulty variant: the gain id is not checked
ValidateConfigureADCNoGain(posInput, negInput, gainId) ==
    CheckValidInputs(posInput, negInput)

\* ConfigureADC
ValidateConfigureADC(posInput, negInput, gainId) ==
    IF CheckValidInputs(posInput, negInput) # Nil
    THEN CheckValidInputs(posInput, negInput)
    ELSE IF gainId >= NGains THEN ErrInvalidGainID
    ELSE Nil

\* SetDAC
ValidateSetDAC(n) ==
    IF n < 1 \/ n > NOutputs + NHiddenOutputs THEN ErrInvalidOutput ELSE Nil

\* Faulty variant: PIO numbers counted from 0
ValidatePIOZeroBased(n) ==
    IF n < 0 \/ n >= NPIOs THEN ErrInvalidPIO ELSE Nil

\* SetPIO, SetPIODir, ReadPIO
ValidatePIO(n) ==
    IF n < 1 \/ n > NPIOs THEN ErrInvalidPIO ELSE Nil

\* Faulty variant: the bound itself is let through
ValidatePortOffByOne(value) ==
    IF value < 0 \/ value > (2 ^ NPIOs) % 256 THEN ErrInvalidPIOValue ELSE Nil

\* SetPortDir, SetPort: the shift is computed in uint8
ValidatePort(value) ==
    IF value < 0 \/ value >= (2 ^ NPIOs) % 256 THEN ErrInvalidPIOValue ELSE Nil

\* SetId
ValidateSetId(id) ==
    IF id < 0 \/ id > MaxId THEN ErrInvalidID ELSE Nil

\* The check each public operation makes before it calls sendCommand
Validate(c) ==
    CASE c.name = "SetLED" -> ValidateSetLED(c.a, c.b)
      [] c.name = "ConfigureADC" -> ValidateConfigureADC(c.a, c.b, c.c)
      [] c.name \in {"SetDAC", "SetAnalog"} -> ValidateSetDAC(c.a)
      [] c.name \in {"SetPIO", "SetPIODir", "ReadPIO"} -> ValidatePIO(c.a)
      [] c.name \in {"SetPortDir", "SetPort"} -> ValidatePort(c.a)
      [] c.name = "SetId" -> ValidateSetId(c.a)
      [] OTHER -> Nil

\* The message each operation hands to sendCommand: opcode and payload
Command(c) ==
    CASE c.name = "SetLED" -> [num |-> LED_W, data |-> <<c.b, c.a>>]
      [] c.name = "ConfigureADC" -> [num |-> AIN_CFG, data |-> <<c.a, c.b, c.c, 1>>]
      [] c.name \in {"ReadADC", "ReadAnalog"} -> [num |-> AIN, data |-> <<>>]
      [] c.name \in {"SetDAC", "SetAnalog"} -> [num |-> SET_DAC, data |-> <<c.b, c.a>>]
      [] c.name = "SetPIO" -> [num |-> PIO, data |-> <<c.a, c.b>>]
      [] c.name = "SetPIODir" -> [num |-> PIO_DIR, data |-> <<c.a, c.b>>]
      [] c.name = "ReadPIO" -> [num |-> PIO, data |-> <<c.a>>]
      [] c.name = "SetPortDir" -> [num |-> PORT_DIR, data |-> <<c.a>>]
      [] c.name = "ReadPort" -> [num |-> PORT, data |-> <<>>]
      [] c.name = "SetPort" -> [num |-> PORT, data |-> <<c.a>>]
      [] c.name \in {"SetId"} -> [num |-> ID_CONFIG, data |-> <<c.a>>]
      [] c.name \in {"GetInfo", "New.GetInfo"} -> [num |-> ID_CONFIG, data |-> <<>>]
      [] c.name = "New.readCalib" -> [num |-> GET_CALIB, data |-> <<c.a>>]
      [] OTHER -> [num |-> 0, data |-> <<>>]

(***************************************************************************)
(* State                                                                   *)
(***************************************************************************)
VARIABLES
    dev,        \* New's progress: "none", "constructing", "ready", "failed"
    newErr,     \* the error New returned
    devModel,   \* the model id the device reports in its identity reply
    daq,        \* the input state of OpenDAQ: posInput, gainId, diffMode
    calib,      \* daq.calib; calib[i + 1] is the entry of register i
    calibReq,   \* the registers New has asked for, in order
    lockHolder, \* the caller holding daq's mutex, or NoProc
    pc,         \* each caller's position
    call,       \* each caller's current call
    att,        \* try.Do's attempt counter of the call
    sent,       \* frames put on the transport by the call inside sendCommand
    flushed,    \* flushes of the input buffer made by the call inside sendCommand
    derr,       \* the error of the call's latest attempt (Nil: none)
    rdr,        \* the reader sendCommand returned: "nil" or "resp"
    res,        \* what the call returned to its caller
    loc,        \* locals of the call: calibration lookups and the fields read
    stale,      \* history: another caller stored into the input state during
                \* this caller's ConfigureADC or ReadAnalog
    qry,        \* SpecIdx: the arguments of one GetCalibIndex/GetCalib request
    ans,        \* SpecIdx: what the request returned
    cmds,       \* history: calls of sendCommand made by each caller's current operation
    frame,      \* the frame each caller's latest attempt put on the transport
    reg,        \* SpecReg: the registry hwModels and what registerModel returned
    dec         \* SpecDec: one register reply and what readCalib decoded from it

vars ==
    <<dev, newErr, devModel, daq, calib, calibReq, lockHolder, pc, call, att,
      sent, flushed, derr, rdr, res, loc, stale, qry, ans, cmds, frame, reg, dec>>

devVars == <<dev, newErr, devModel, calib, calibReq>>
wireVars == <<att, sent, flushed, derr, rdr>>
idxVars == <<qry, ans>>
regVars == <<reg>>
decVars == <<dec>>
cmdVars == <<cmds, frame>>

Qry(isOutput, diffMode, secondStage, n, gainId) ==
    [isOutput |-> isOutput, diffMode |-> diffMode, secondStage |-> secondStage,
     n |-> n, gainId |-> gainId]
NoQry == Qry(FALSE, FALSE, FALSE, 0, 0)
Ans(done, r, cal) == [done |-> done, r |-> r, cal |-> cal]
NoAns == Ans(FALSE, IdxRes(0, Nil), ZeroCalib)

Res(err, val) == [err |-> err, val |-> val]
NoRes == Res(Nil, 0)
Loc(d, p, g, cal1, cal2) == [d |-> d, p |-> p, g |-> g, cal1 |-> cal1, cal2 |-> cal2]
NoLoc == Loc(FALSE, 0, 0, ZeroCalib, ZeroCalib)

\* A frame on the transport: opcode and payload (no frame yet: opcode 0)
NoFrame == [num |-> 0, data |-> <<>>]

\* The registry: the model registered under each id ("" for none), the value
\* the latest registerModel returned, how many init functions have run, how
\* many of them had their registration refused, and whether main has started
NoModel == ""
Registry(models, err, inits, refused, started) ==
    [models |-> models, err |-> err, inits |-> inits, refused |-> refused,
     started |-> started]
\* hwModels once the init function of model S has run and main has started
RegistryS ==
    Registry([id \in 1 .. MaxModelId |-> IF id \in hwModels THEN "OpenDAQ S" ELSE NoModel],
             Nil, 1, 0, TRUE)

\* One GET_CALIB reply (register number, raw fields) and readCalib's result
Dec(nReg, raw, out, done) == [nReg |-> nReg, raw |-> raw, out |-> out, done |-> done]
NoDec == Dec(0, [Gain |-> 0, Offs |-> 0], ZeroCalib, FALSE)

\* daq := OpenDAQ{}
Init ==
    /\ dev = "none"
    /\ newErr = Nil
    /\ devModel \in 1 .. MaxModelId
    /\ daq = [posInput |-> 0, gainId |-> 0, diffMode |-> FALSE]
    /\ calib = <<>>
    /\ calibReq = <<>>
    /\ lockHolder = NoProc
    /\ pc = [p \in Procs |-> "idle"]
    /\ call = [p \in Procs |-> NoCall]
    /\ att = [p \in Procs |-> 0]
    /\ sent = [p \in Procs |-> 0]
    /\ flushed = [p \in Procs |-> 0]
    /\ derr = [p \in Procs |-> Nil]
    /\ rdr = [p \in Procs |-> "nil"]
    /\ res = [p \in Procs |-> NoRes]
    /\ loc = [p \in Procs |-> NoLoc]
    /\ stale = [p \in Procs |-> FALSE]
    /\ qry = NoQry
    /\ ans = NoAns
    /\ cmds = [p \in Procs |-> 0]
    /\ frame = [p \in Procs |-> NoFrame]
    /\ reg = RegistryS
    /\ dec = NoDec

\* A runtime panic in any goroutine ends the program
Crashed == \E p \in Procs : pc[p] = "panic"

(***************************************************************************)
(* The dispatcher: OpenDAQ.sendCommand                                     *)
(***************************************************************************)
\* The caller enters sendCommand with a fresh call
Enter(p, c) ==
    /\ call' = [call EXCEPT ![p] = c]
    /\ pc' = [pc EXCEPT ![p] = "lock"]

\* Faulty variant: the mutex lets a second caller in
CanLockAlways(p) == TRUE

\* daq.Lock()
CanLock(p) == lockHolder = NoProc

Lock(p) ==
    /\ ~Crashed
    /\ pc[p] = "lock"
    /\ CanLock(p)
    /\ lockHolder' = p
    /\ pc' = [pc EXCEPT ![p] = "try"]
    /\ att' = [att EXCEPT ![p] = 1]
    /\ cmds' = [cmds EXCEPT ![p] = @ + 1]
    /\ UNCHANGED <<devVars, idxVars, regVars, decVars, frame, daq, call, sent, flushed,
                   derr, rdr, res, loc, stale>>

\* Faulty variant: off by one in the retry bound
RetryOffByOne(attempt) == attempt <= MaxAttempts

\* "return attempt < 8, e"
Retry(attempt) == attempt < MaxAttempts

\* try.Do after a failed attempt: go on while fn asks for it (and try's own
\* MaxRetries, 10, is not passed)
TryAgain(attempt) == Retry(attempt) /\ attempt + 1 <= 10

\* try.Do's result when the loop ends on a failure
TryErr(attempt) ==
    IF Retry(attempt) /\ attempt + 1 > 10 THEN ErrMaxRetries ELSE IoErr(attempt)

\* The reader the codec's sendCommand returns with an error: none
FailedReader == "nil"

\* Faulty variant: the input buffer is flushed after a successful attempt too
NeedsFlushAlways(e) == TRUE

\* "if e != nil { daq.ser.Flush() }"
NeedsFlush(e) == e # Nil

\* try.Do once fn returned (attempt < 8, e): the next attempt, or the loop ends
Decide(p, e) ==
    IF e # Nil /\ TryAgain(att[p])
    THEN /\ att' = [att EXCEPT ![p] = @ + 1]
         /\ derr' = [derr EXCEPT ![p] = e]
         /\ pc' = [pc EXCEPT ![p] = "try"]
    ELSE /\ att' = att
         /\ derr' = [derr EXCEPT ![p] = IF e = Nil THEN Nil ELSE TryErr(att[p])]
         /\ pc' = [pc EXCEPT ![p] = "unlock"]

\* One attempt: the frame is written and the response read (or not)
Attempt(p) ==
    /\ ~Crashed
    /\ pc[p] = "try"
    /\ sent' = [sent EXCEPT ![p] = @ + 1]
    /\ frame' = [frame EXCEPT ![p] = Command(call[p])]
    /\ \E ok \in BOOLEAN :
        LET e == IF ok THEN Nil ELSE IoErr(att[p]) IN
        /\ rdr' = [rdr EXCEPT ![p] = IF ok THEN "resp" ELSE FailedReader]
        /\ IF NeedsFlush(e)
           THEN /\ derr' = [derr EXCEPT ![p] = e]
                /\ pc' = [pc EXCEPT ![p] = "flush"]
                /\ att' = att
           ELSE Decide(p, e)
    /\ UNCHANGED <<devVars, idxVars, regVars, decVars, cmds, daq, lockHolder, call,
                   flushed, res, loc, stale>>

\* daq.ser.Flush() after the attempt, then fn returns to try.Do
Flush(p) ==
    /\ ~Crashed
    /\ pc[p] = "flush"
    /\ flushed' = [flushed EXCEPT ![p] = @ + 1]
    /\ Decide(p, derr[p])
    /\ UNCHANGED <<devVars, idxVars, regVars, decVars, cmdVars, daq, lockHolder, call,
                   sent, rdr, res, loc, stale>>

\* The deferred daq.Unlock(), and sendCommand returns (r, err)
Unlock(p) ==
    /\ ~Crashed
    /\ pc[p] = "unlock"
    /\ lockHolder' = NoProc
    /\ pc' = [pc EXCEPT ![p] = "post"]
    /\ att' = [att EXCEPT ![p] = 0]
    /\ sent' = [sent EXCEPT ![p] = 0]
    /\ flushed' = [flushed EXCEPT ![p] = 0]
    /\ UNCHANGED <<devVars, idxVars, regVars, decVars, cmdVars, daq, call, derr, rdr, res, loc, stale>>

(***************************************************************************)
(* Construction: New                                                       *)
(***************************************************************************)
\* New up to the identity query: posInput = 1, the port is opened (or not)
NewOpen(p) ==
    /\ ~Crashed
    /\ dev = "none"
    /\ pc[p] = "idle"
    /\ daq' = [daq EXCEPT !.posInput = 1]
    /\ \E opened \in BOOLEAN :
        IF opened
        THEN /\ dev' = "constructing"
             /\ Enter(p, Call("New.GetInfo", 0, 0, 0))
             /\ UNCHANGED newErr
        ELSE /\ dev' = "failed"
             /\ newErr' = ErrOpenPort
             /\ UNCHANGED <<pc, call>>
    /\ UNCHANGED <<idxVars, regVars, decVars, cmdVars, devModel, calib, calibReq, lockHolder, wireVars, res, loc, stale>>

\* Faulty variant: New ignores the error of a read
ReadFailedNever(e) == FALSE

\* New: "if err != nil { return nil, err }" after GetInfo and after readCalib
ReadFailed(e) == e # Nil

\* readCalib(i) is called: one GET_CALIB command for register i
AskCalib(p, i) ==
    /\ calibReq' = Append(calibReq, i)
    /\ Enter(p, Call("New.readCalib", i, 0, 0))

\* New after GetInfo returned: the model lookup and make([]Calib, NCalibRegs)
NewModel(p) ==
    /\ ~Crashed
    /\ pc[p] = "post"
    /\ call[p].name = "New.GetInfo"
    /\ IF ReadFailed(derr[p])
       THEN /\ dev' = "failed"
            /\ newErr' = derr[p]
            /\ pc' = [pc EXCEPT ![p] = "idle"]
            /\ call' = [call EXCEPT ![p] = NoCall]
            /\ UNCHANGED <<calib, calibReq>>
       ELSE IF devModel \notin hwModels
       THEN /\ dev' = "failed"
            /\ newErr' = ErrUnknownModel
            /\ pc' = [pc EXCEPT ![p] = "idle"]
            /\ call' = [call EXCEPT ![p] = NoCall]
            /\ UNCHANGED <<calib, calibReq>>
       ELSE /\ calib' = [i \in 1 .. NCalibRegs |-> ZeroCalib]
            /\ IF NCalibRegs = 0
               THEN /\ dev' = "ready"
                    /\ pc' = [pc EXCEPT ![p] = "idle"]
                    /\ call' = [call EXCEPT ![p] = NoCall]
                    /\ UNCHANGED calibReq
               ELSE /\ dev' = dev
                    /\ AskCalib(p, 0)
            /\ UNCHANGED newErr
    /\ derr' = [derr EXCEPT ![p] = Nil]
    /\ rdr' = [rdr EXCEPT ![p] = "nil"]
    /\ cmds' = [cmds EXCEPT ![p] = 0]
    /\ frame' = [frame EXCEPT ![p] = NoFrame]
    /\ UNCHANGED <<idxVars, regVars, decVars, devModel, daq, lockHolder, att, sent,
                   flushed, res, loc, stale>>

\* New's loop body after readCalib(i) returned
NewCalib(p) ==
    /\ ~Crashed
    /\ pc[p] = "post"
    /\ call[p].name = "New.readCalib"
    /\ LET i == call[p].a IN
       IF ReadFailed(derr[p])
       THEN /\ dev' = "failed"
            /\ newErr' = derr[p]
            /\ pc' = [pc EXCEPT ![p] = "idle"]
            /\ call' = [call EXCEPT ![p] = NoCall]
            /\ UNCHANGED <<calib, calibReq>>
       ELSE /\ calib' = [calib EXCEPT ![i + 1] = DecodeCalib(i, DeviceRegs(i))]
            /\ IF i + 1 < NCalibRegs
               THEN /\ dev' = dev
                    /\ AskCalib(p, i + 1)
               ELSE /\ dev' = "ready"
                    /\ pc' = [pc EXCEPT ![p] = "idle"]
                    /\ call' = [call EXCEPT ![p] = NoCall]
                    /\ UNCHANGED calibReq
            /\ UNCHANGED newErr
    /\ derr' = [derr EXCEPT ![p] = Nil]
    /\ rdr' = [rdr EXCEPT ![p] = "nil"]
    /\ cmds' = [cmds EXCEPT ![p] = 0]
    /\ frame' = [frame EXCEPT ![p] = NoFrame]
    /\ UNCHANGED <<idxVars, regVars, decVars, devModel, daq, lockHolder, att, sent,
                   flushed, res, loc, stale>>

(***************************************************************************)
(* The public operations                                                   *)
(***************************************************************************)
\* daq.calib[idx] with idx out of range: a runtime panic
IndexPanic == Calib(0 - 1, 0 - 1)

\* Faulty variant: a refused request is answered with the zero value
GetCalibZeroOnError(isOutput, diffMode, secondStage, n, gainId) ==
    LET r == GetCalibIndex(isOutput, diffMode, secondStage, n, gainId) IN
    IF r.err # Nil THEN ZeroCalib
    ELSE IF r.idx < Len(calib) THEN calib[r.idx + 1]
    ELSE IndexPanic

\* OpenDAQ.GetCalib
GetCalib(isOutput, diffMode, secondStage, n, gainId) ==
    LET r == GetCalibIndex(isOutput, diffMode, secondStage, n, gainId) IN
    IF r.err # Nil THEN IdentityCalib
    ELSE IF r.idx < Len(calib) THEN calib[r.idx + 1]
    ELSE IndexPanic

\* Faulty variant: the operation goes on to sendCommand whatever the check said
RejectsNever(verr) == FALSE

\* "if <check fails> { return err }" at the head of an operation
Rejects(verr) == verr # Nil

\* Where a call goes once its arguments passed: ConfigureADC first stores the
\* input state, every other operation calls sendCommand at once
FirstStep(c) == IF c.name = "ConfigureADC" THEN "wPos" ELSE "lock"

\* A caller invokes a public operation, one of calls: the call up to its
\* validation.  SetAnalog converts (voltsToDac) before SetDAC validates.
Invoke(p, calls) ==
    /\ ~Crashed
    /\ dev = "ready"
    /\ pc[p] = "idle"
    /\ \E c \in calls :
        /\ call' = [call EXCEPT ![p] = c]
        /\ loc' = [loc EXCEPT ![p] =
                     IF c.name = "SetAnalog"
                     THEN [NoLoc EXCEPT !.cal1 = GetCalib(TRUE, FALSE, FALSE, c.a, 0)]
                     ELSE NoLoc]
        /\ IF Rejects(Validate(c))
           THEN /\ pc' = [pc EXCEPT ![p] = "done"]
                /\ res' = [res EXCEPT ![p] = Res(Validate(c), 0)]
           ELSE /\ pc' = [pc EXCEPT ![p] = FirstStep(c)]
                /\ res' = res
    /\ UNCHANGED <<devVars, idxVars, regVars, decVars, cmdVars, daq, lockHolder, wireVars, stale>>

Begin(p) == Invoke(p, CallsOf(p))

\* History: a store of caller p into the input state disturbs every other
\* caller that is inside ConfigureADC or ReadAnalog
Disturbed(p) ==
    [r \in Procs |->
        IF r # p /\ call[r].name \in {"ConfigureADC", "ReadAnalog"}
        THEN TRUE ELSE stale[r]]

\* ConfigureADC: daq.posInput = posInput
WritePos(p) ==
    /\ ~Crashed
    /\ pc[p] = "wPos"
    /\ daq' = [daq EXCEPT !.posInput = call[p].a]
    /\ pc' = [pc EXCEPT ![p] = "wGain"]
    /\ UNCHANGED <<devVars, idxVars, regVars, decVars, cmdVars, lockHolder, call, wireVars, res, loc>>
    /\ stale' = Disturbed(p)

\* Faulty variant: the gain id is stored into the wrong field
WriteGainWrong(p) ==
    /\ ~Crashed
    /\ pc[p] = "wGain"
    /\ daq' = [daq EXCEPT !.posInput = call[p].c]
    /\ pc' = [pc EXCEPT ![p] = "wDiff"]
    /\ UNCHANGED <<devVars, idxVars, regVars, decVars, cmdVars, lockHolder, call, wireVars, res, loc>>
    /\ stale' = Disturbed(p)

\* ConfigureADC: daq.gainId = gainId
WriteGain(p) ==
    /\ ~Crashed
    /\ pc[p] = "wGain"
    /\ daq' = [daq EXCEPT !.gainId = call[p].c]
    /\ pc' = [pc EXCEPT ![p] = "wDiff"]
    /\ UNCHANGED <<devVars, idxVars, regVars, decVars, cmdVars, lockHolder, call, wireVars, res, loc>>
    /\ stale' = Disturbed(p)

\* ConfigureADC: daq.diffMode = false
WriteDiffFalse(p) ==
    /\ ~Crashed
    /\ pc[p] = "wDiff"
    /\ daq' = [daq EXCEPT !.diffMode = FALSE]
    /\ pc' = [pc EXCEPT ![p] = IF call[p].b # 0 THEN "wDiffT" ELSE "lock"]
    /\ UNCHANGED <<devVars, idxVars, regVars, decVars, cmdVars, lockHolder, call, wireVars, res, loc>>
    /\ stale' = Disturbed(p)

\* ConfigureADC: if negInput != 0 { daq.diffMode = true }
WriteDiffTrue(p) ==
    /\ ~Crashed
    /\ pc[p] = "wDiffT"
    /\ daq' = [daq EXCEPT !.diffMode = TRUE]
    /\ pc' = [pc EXCEPT ![p] = "lock"]
    /\ UNCHANGED <<devVars, idxVars, regVars, decVars, cmdVars, lockHolder, call, wireVars, res, loc>>
    /\ stale' = Disturbed(p)

\* The operations that decode the response before they look at err
DecodesFirst == {"ReadPIO", "ReadPort", "SetId"}

\* binary.Read(buf, ...) on the reader sendCommand returned: a nil reader is
\* dereferenced
DecodePanics(r) == r = "nil"

\* SetLED, ConfigureADC, SetDAC, SetAnalog, SetPIO, SetPIODir, SetPortDir,
\* SetPort: "return err"; ReadADC and GetInfo: err is checked, then the
\* response decoded
Finish(p) ==
    /\ ~Crashed
    /\ pc[p] = "post"
    /\ call[p].name \notin DecodesFirst \cup {"ReadAnalog", "New.GetInfo", "New.readCalib"}
    /\ pc' = [pc EXCEPT ![p] = "done"]
    /\ res' = [res EXCEPT ![p] =
                 IF derr[p] = Nil /\ call[p].name = "GetInfo"
                 THEN Res(Nil, devModel)
                 ELSE Res(derr[p], 0)]
    /\ UNCHANGED <<devVars, idxVars, regVars, decVars, cmdVars, daq, lockHolder, call, wireVars, loc, stale>>

\* ReadPIO, ReadPort, SetId: binary.Read first, then "return ..., err"
FinishDecoded(p) ==
    /\ ~Crashed
    /\ pc[p] = "post"
    /\ call[p].name \in DecodesFirst
    /\ IF DecodePanics(rdr[p])
       THEN /\ pc' = [pc EXCEPT ![p] = "panic"]
            /\ res' = res
       ELSE /\ pc' = [pc EXCEPT ![p] = "done"]
            /\ res' = [res EXCEPT ![p] = Res(derr[p], 0)]
    /\ UNCHANGED <<devVars, idxVars, regVars, decVars, cmdVars, daq, lockHolder, call, wireVars, loc, stale>>

\* ReadAnalog after ReadADC returned
ReadAnalogPost(p) ==
    /\ ~Crashed
    /\ pc[p] = "post"
    /\ call[p].name = "ReadAnalog"
    /\ IF derr[p] # Nil
       THEN /\ pc' = [pc EXCEPT ![p] = "done"]
            /\ res' = [res EXCEPT ![p] = Res(derr[p], 0)]
       ELSE /\ pc' = [pc EXCEPT ![p] = "r1d"]
            /\ res' = res
    /\ UNCHANGED <<devVars, idxVars, regVars, decVars, cmdVars, daq, lockHolder, call, wireVars, loc, stale>>

\* adcToVolts reads daq.diffMode (for cal1 at "r1d", for cal2 at "r2d")
ReadDiff(p) ==
    /\ ~Crashed
    /\ pc[p] \in {"r1d", "r2d"}
    /\ loc' = [loc EXCEPT ![p].d = daq.diffMode]
    /\ pc' = [pc EXCEPT ![p] = IF pc[p] = "r1d" THEN "r1p" ELSE "r2p"]
    /\ UNCHANGED <<devVars, idxVars, regVars, decVars, cmdVars, daq, lockHolder, call, wireVars, res, stale>>

\* adcToVolts reads daq.posInput
ReadPos(p) ==
    /\ ~Crashed
    /\ pc[p] \in {"r1p", "r2p"}
    /\ loc' = [loc EXCEPT ![p].p = daq.posInput]
    /\ pc' = [pc EXCEPT ![p] = IF pc[p] = "r1p" THEN "r1g" ELSE "r2g"]
    /\ UNCHANGED <<devVars, idxVars, regVars, decVars, cmdVars, daq, lockHolder, call, wireVars, res, stale>>

\* adcToVolts reads daq.gainId and calls GetCalib: first stage
Lookup1(p) ==
    /\ ~Crashed
    /\ pc[p] = "r1g"
    /\ loc' = [loc EXCEPT ![p].g = daq.gainId,
                          ![p].cal1 = GetCalib(FALSE, loc[p].d, FALSE, loc[p].p, daq.gainId)]
    /\ pc' = [pc EXCEPT ![p] = "r2d"]
    /\ UNCHANGED <<devVars, idxVars, regVars, decVars, cmdVars, daq, lockHolder, call, wireVars, res, stale>>

\* adcToVolts reads daq.gainId and calls GetCalib: second stage
Lookup2(p) ==
    /\ ~Crashed
    /\ pc[p] = "r2g"
    /\ loc' = [loc EXCEPT ![p].g = daq.gainId,
                          ![p].cal2 = GetCalib(FALSE, loc[p].d, TRUE, loc[p].p, daq.gainId)]
    /\ pc' = [pc EXCEPT ![p] = "r3g"]
    /\ UNCHANGED <<devVars, idxVars, regVars, decVars, cmdVars, daq, lockHolder, call, wireVars, res, stale>>

\* Faulty variant: the conversion writes the entry it used back into daq.calib
ConvertCaching(p) ==
    /\ ~Crashed
    /\ pc[p] = "r3g"
    /\ loc' = [loc EXCEPT ![p].g = daq.gainId]
    /\ pc' = [pc EXCEPT ![p] = "done"]
    /\ res' = [res EXCEPT ![p] = Res(Nil, 0)]
    /\ calib' = [calib EXCEPT ![1] = loc[p].cal2]
    /\ UNCHANGED <<dev, newErr, devModel, calibReq, idxVars, regVars, decVars, cmdVars,
                   daq, lockHolder, call, wireVars, stale>>

\* adcToVolts reads daq.gainId for Adc.ToVolts; ReadAnalog returns
Convert(p) ==
    /\ ~Crashed
    /\ pc[p] = "r3g"
    /\ loc' = [loc EXCEPT ![p].g = daq.gainId]
    /\ pc' = [pc EXCEPT ![p] = "done"]
    /\ res' = [res EXCEPT ![p] = Res(Nil, 0)]
    /\ UNCHANGED <<devVars, idxVars, regVars, decVars, cmdVars, daq, lockHolder, call, wireVars, stale>>

\* The caller has its result; it is free to call again
Return(p) ==
    /\ ~Crashed
    /\ pc[p] = "done"
    /\ pc' = [pc EXCEPT ![p] = "idle"]
    /\ call' = [call EXCEPT ![p] = NoCall]
    /\ res' = [res EXCEPT ![p] = NoRes]
    /\ loc' = [loc EXCEPT ![p] = NoLoc]
    /\ derr' = [derr EXCEPT ![p] = Nil]
    /\ rdr' = [rdr EXCEPT ![p] = "nil"]
    /\ cmds' = [cmds EXCEPT ![p] = 0]
    /\ frame' = [frame EXCEPT ![p] = NoFrame]
    /\ UNCHANGED <<devVars, idxVars, regVars, decVars, daq, lockHolder, att, sent, flushed>>
    /\ stale' = [stale EXCEPT ![p] = FALSE]

Next ==
    \E p \in Procs :
        \/ NewOpen(p)
        \/ NewModel(p)
        \/ NewCalib(p)
        \/ Begin(p)
        \/ WritePos(p)
        \/ WriteGain(p)
        \/ WriteDiffFalse(p)
        \/ WriteDiffTrue(p)
        \/ Lock(p)
        \/ Attempt(p)
        \/ Flush(p)
        \/ Unlock(p)
        \/ Finish(p)
        \/ FinishDecoded(p)
        \/ ReadAnalogPost(p)
        \/ ReadDiff(p)
        \/ ReadPos(p)
        \/ Lookup1(p)
        \/ Lookup2(p)
        \/ Convert(p)
        \/ Return(p)

Spec == Init /\ [][Next]_vars

(***************************************************************************)
(* SpecIdx: the calibration-index function on its own. A constructed       *)
(* Device of model S is asked once, with arguments drawn from bounded sets.*)
(***************************************************************************)
\* New returned the Device: model S, every register read
Constructed ==
    /\ dev = "ready"
    /\ newErr = Nil
    /\ devModel = ModelSId
    /\ daq = [posInput |-> 1, gainId |-> 0, diffMode |-> FALSE]
    /\ calib = LoadedCalib
    /\ calibReq = [i \in 1 .. NCalibRegs |-> i - 1]
    /\ lockHolder = NoProc
    /\ pc = [p \in Procs |-> "idle"]
    /\ call = [p \in Procs |-> NoCall]
    /\ att = [p \in Procs |-> 0]
    /\ sent = [p \in Procs |-> 0]
    /\ flushed = [p \in Procs |-> 0]
    /\ derr = [p \in Procs |-> Nil]
    /\ rdr = [p \in Procs |-> "nil"]
    /\ res = [p \in Procs |-> NoRes]
    /\ loc = [p \in Procs |-> NoLoc]
    /\ stale = [p \in Procs |-> FALSE]
    /\ ans = NoAns
    /\ cmds = [p \in Procs |-> 0]
    /\ frame = [p \in Procs |-> NoFrame]
    /\ reg = RegistryS

InitIdx ==
    /\ Constructed
    /\ qry \in {Qry(o, d, s, n, g) :
                  o \in BOOLEAN, d \in BOOLEAN, s \in BOOLEAN,
                  n \in 0 .. MaxN, g \in 0 .. MaxGainArg}
    /\ dec = NoDec

\* hw.GetCalibIndex and daq.GetCalib are called with the request's arguments
AskIndex ==
    /\ ~ans.done
    /\ ans' = Ans(TRUE,
                  GetCalibIndex(qry.isOutput, qry.diffMode, qry.secondStage,
                                qry.n, qry.gainId),
                  GetCalib(qry.isOutput, qry.diffMode, qry.secondStage,
                           qry.n, qry.gainId))
    /\ UNCHANGED <<devVars, regVars, decVars, cmdVars, daq, lockHolder, pc, call,
                   wireVars, res, loc, stale, qry>>

NextIdx == AskIndex

SpecIdx == InitIdx /\ [][NextIdx]_vars

(***************************************************************************)
(* SpecReg: the model registry while the init functions of the model files *)
(* run, each registering its model, and then main starts.                  *)
(***************************************************************************)
ModelNames == {"OpenDAQ S", "TP04AB"}

\* var hwModels = make(map[uint8]HwModel)
InitReg ==
    /\ reg = Registry([id \in 1 .. MaxModelId |-> NoModel], Nil, 0, 0, FALSE)
    /\ dev = "none"
    /\ newErr = Nil
    /\ devModel = ModelSId
    /\ daq = [posInput |-> 0, gainId |-> 0, diffMode |-> FALSE]
    /\ calib = <<>>
    /\ calibReq = <<>>
    /\ lockHolder = NoProc
    /\ pc = [p \in Procs |-> "idle"]
    /\ call = [p \in Procs |-> NoCall]
    /\ att = [p \in Procs |-> 0]
    /\ sent = [p \in Procs |-> 0]
    /\ flushed = [p \in Procs |-> 0]
    /\ derr = [p \in Procs |-> Nil]
    /\ rdr = [p \in Procs |-> "nil"]
    /\ res = [p \in Procs |-> NoRes]
    /\ loc = [p \in Procs |-> NoLoc]
    /\ stale = [p \in Procs |-> FALSE]
    /\ qry = NoQry
    /\ ans = NoAns
    /\ cmds = [p \in Procs |-> 0]
    /\ frame = [p \in Procs |-> NoFrame]
    /\ dec = NoDec

\* registerModel: the map afterwards and the error returned
registerModel(models, model, hw) ==
    IF models[model] # NoModel
    THEN [models |-> models, err |-> ErrAlreadyRegistered]
    ELSE [models |-> [models EXCEPT ![model] = hw], err |-> Nil]

\* init() of one model file: "registerModel(id, NewModel())", the result is
\* not looked at, and init returns
InitModel ==
    /\ ~reg.started
    /\ reg.inits < MaxInits
    /\ \E model \in 1 .. MaxModelId, hw \in ModelNames :
        LET r == registerModel(reg.models, model, hw) IN
        reg' = Registry(r.models, r.err, reg.inits + 1,
                        reg.refused + (IF r.err # Nil THEN 1 ELSE 0), FALSE)
    /\ UNCHANGED <<devVars, idxVars, decVars, cmdVars, daq, lockHolder, pc, call,
                   wireVars, res, loc, stale>>

\* Every init function has returned: main starts
StartMain ==
    /\ ~reg.started
    /\ reg.inits > 0
    /\ reg' = [reg EXCEPT !.started = TRUE]
    /\ UNCHANGED <<devVars, idxVars, decVars, cmdVars, daq, lockHolder, pc, call,
                   wireVars, res, loc, stale>>

NextReg == InitModel \/ StartMain

SpecReg == InitReg /\ [][NextReg]_vars

(***************************************************************************)
(* SpecDec: readCalib's decoding on its own.  One GET_CALIB reply with raw *)
(* int16 fields drawn from a bounded set is decoded for each register.     *)
(***************************************************************************)
MinInt16 == 0 - 2 ^ 15
MaxInt16 == 2 ^ 15 - 1
RawSamples == {MinInt16, 0 - 1, 0, 1, MaxInt16}

InitDec ==
    /\ Constructed
    /\ qry = NoQry
    /\ dec \in {Dec(nReg, [Gain |-> g, Offs |-> o], ZeroCalib, FALSE) :
                  nReg \in 0 .. NCalibRegs - 1, g \in RawSamples, o \in RawSamples}

\* readCalib after sendCommand returned the reply: the fields are decoded
ReadReg ==
    /\ ~dec.done
    /\ dec' = [dec EXCEPT !.out = DecodeCalib(dec.nReg, dec.raw), !.done = TRUE]
    /\ UNCHANGED <<devVars, idxVars, regVars, cmdVars, daq, lockHolder, pc, call,
                   wireVars, res, loc, stale>>

NextDec == ReadReg

SpecDec == InitDec /\ [][NextDec]_vars

(***************************************************************************)
(* SpecArgs: one caller runs the channel and port operations of a          *)
(* constructed Device of model S over whole ranges of their arguments.     *)
(***************************************************************************)
InitReady ==
    /\ Constructed
    /\ qry = NoQry
    /\ dec = NoDec

\* Channel operations with n in 0..MaxN, port operations with every uint8
ArgCalls ==
    {Call(op, n, 1, 0) : op \in {"SetLED", "SetDAC", "SetAnalog", "SetPIO",
                                 "SetPIODir", "ReadPIO"}, n \in 0 .. MaxN}
    \cup {Call("ConfigureADC", n, 0, 0) : n \in 0 .. MaxN}
    \cup {Call(op, v, 0, 0) : op \in {"SetPortDir", "SetPort"}, v \in 0 .. MaxByte}

TheCaller == CHOOSE p \in Procs : \A q \in Procs : p <= q

BeginArgs == Invoke(TheCaller, ArgCalls)

NextArgs ==
    \/ BeginArgs
    \/ WritePos(TheCaller)
    \/ WriteGain(TheCaller)
    \/ WriteDiffFalse(TheCaller)
    \/ Lock(TheCaller)
    \/ Attempt(TheCaller)
    \/ Flush(TheCaller)
    \/ Unlock(TheCaller)
    \/ Finish(TheCaller)
    \/ FinishDecoded(TheCaller)
    \/ Return(TheCaller)

SpecArgs == InitReady /\ [][NextArgs]_vars

(***************************************************************************)
(* SpecLive: two callers use a constructed Device, every step that is      *)
(* enabled is eventually taken, and the mutex is acquired fairly.          *)
(***************************************************************************)
\* A plain command and one whose response is decoded
LiveCalls == {Call("SetLED", 1, GREEN, 0), Call("ReadPIO", 1, 0, 0)}

BeginLive(p) == Invoke(p, LiveCalls)

NextLive ==
    \E p \in Procs :
        \/ BeginLive(p)
        \/ Lock(p)
        \/ Attempt(p)
        \/ Flush(p)
        \/ Unlock(p)
        \/ Finish(p)
        \/ FinishDecoded(p)
        \/ Return(p)

\* Every transport attempt and flush returns, a running goroutine goes on,
\* and a goroutine waiting in daq.Lock() gets the mutex if it is free again
\* and again
Fairness ==
    \A p \in Procs :
        /\ SF_vars(Lock(p))
        /\ WF_vars(Attempt(p))
        /\ WF_vars(Flush(p))
        /\ WF_vars(Unlock(p))
        /\ WF_vars(Finish(p))
        /\ WF_vars(FinishDecoded(p))
        /\ WF_vars(Return(p))

SpecLive == InitReady /\ [][NextLive]_vars /\ Fairness

(***************************************************************************)
(* Properties                                                              *)
(***************************************************************************)
InDispatcher == {"try", "flush", "unlock"}
PublicCall(c) == c.name \notin {"none", "New.GetInfo", "New.readCalib"}

\* C1: one call of sendCommand whose first k attempts fail (k < 8) and whose
\* next attempt succeeds returns success after exactly k + 1 attempts; a call
\* whose attempts all fail returns an error after exactly 8 attempts; no call
\* ever issues a 9th attempt.  (Every failed attempt is counted by its flush.)
RetryBound ==
    \A p \in Procs :
        /\ sent[p] <= MaxAttempts
        /\ pc[p] = "unlock" =>
            IF derr[p] = Nil
            THEN /\ rdr[p] = "resp"
                 /\ flushed[p] < MaxAttempts
                 /\ sent[p] = flushed[p] + 1
            ELSE /\ flushed[p] = MaxAttempts
                 /\ sent[p] = MaxAttempts

\* C1 witness: a call returns an error after 8 failed attempts
RetryExhausted ==
    \E p \in Procs :
        pc[p] = "unlock" /\ derr[p] # Nil /\ sent[p] = MaxAttempts

\* C2: at most one command is in flight: only the lock holder is inside the
\* send-and-retry cycle, every frame and flush is the lock holder's, the lock
\* is taken only when free and given up only by its holder at the end of its
\* cycle, so the attempts of two calls never interleave.
OneInFlight ==
    /\ [](\A p \in Procs :
            (pc[p] \in InDispatcher \/ sent[p] > 0 \/ flushed[p] > 0 \/ att[p] > 0)
                => lockHolder = p)
    /\ [][\A p \in Procs :
            /\ (sent'[p] > sent[p] \/ flushed'[p] > flushed[p]) =>
                  /\ lockHolder = p
                  /\ lockHolder' = p
                  /\ \A q \in Procs \ {p} :
                        /\ pc[q] \notin InDispatcher
                        /\ sent[q] = 0 /\ flushed[q] = 0
                        /\ sent'[q] = 0 /\ flushed'[q] = 0
            /\ (lockHolder = p /\ lockHolder' # p) =>
                  /\ pc[p] = "unlock" /\ pc'[p] = "post"
                  /\ lockHolder' = NoProc
            /\ (lockHolder # p /\ lockHolder' = p) =>
                  /\ lockHolder = NoProc
                  /\ pc[p] = "lock" /\ sent[p] = 0
       ]_vars

\* C2 witness: one caller is retrying while the other waits for the lock
RetryingWhileOtherWaits ==
    \E p, q \in Procs :
        /\ p # q
        /\ pc[p] = "try" /\ att[p] = 3 /\ sent[p] = 2
        /\ pc[q] = "lock"

\* The input state every accepted ConfigureADC call of the model, and New, stores
StoredBy(c) == [posInput |-> c.a, gainId |-> c.c, diffMode |-> c.b # 0]
IssuedConfigs ==
    {[posInput |-> 1, gainId |-> 0, diffMode |-> FALSE]} \cup
    {StoredBy(c) : c \in {x \in ConfigureCalls : Validate(x) = Nil}}

\* C3 (as claimed): the input state is written and read under the device
\* lock, so the first-stage lookup of a ReadAnalog never uses a configuration
\* that no single ConfigureADC call (nor New) stored.
ConfigUnderLock ==
    \A p \in Procs :
        pc[p] = "r2d" =>
            [posInput |-> loc[p].p, gainId |-> loc[p].g, diffMode |-> loc[p].d]
                \in IssuedConfigs

\* C4: a call of a public operation whose arguments fail validation returns
\* the validation error at once: it never waits for the lock, never holds it,
\* never puts a frame on the transport or flushes, and is never retried.
NoIOOnInvalid ==
    \A p \in Procs :
        (PublicCall(call[p]) /\ Validate(call[p]) # Nil) =>
            /\ pc[p] = "done"
            /\ res[p] = Res(Validate(call[p]), 0)
            /\ res[p].err \in ValidationErrors
            /\ lockHolder # p
            /\ att[p] = 0 /\ sent[p] = 0 /\ flushed[p] = 0
            /\ derr[p] = Nil /\ rdr[p] = "nil"

\* C4 witness: SetAnalog on an output that does not exist has returned
InvalidSetAnalogReturned ==
    \E p \in Procs :
        /\ pc[p] = "done"
        /\ call[p].name = "SetAnalog"
        /\ res[p].err = ErrInvalidOutput

AfterStores == {"lock", "try", "unlock", "post", "done"}
Accepted(p) ==
    /\ call[p].name = "ConfigureADC"
    /\ Validate(call[p]) = Nil
    /\ pc[p] \in AfterStores
    /\ ~stale[p]

NewCalls == {"New.GetInfo", "New.readCalib"}

\* C6: New sends the identity query first, then asks for the registers
\* 0, 1, ..., NCalibRegs - 1 in this order, each once; the Device is returned
\* only when every read succeeded; when the identity query fails, the model is
\* not registered (no register asked for) or a register read fails after its
\* retries, New returns an error, no Device, and asks for no further register.
NewAllOrNothing ==
    /\ [](/\ Len(calibReq) <= NCalibRegs
          /\ \A i \in 1 .. Len(calibReq) : calibReq[i] = i - 1
          /\ calibReq # <<>> => (devModel \in hwModels /\ dev # "none")
          /\ \A p \in Procs :
                /\ call[p].name = "New.GetInfo" => calibReq = <<>>
                /\ call[p].name = "New.readCalib" =>
                      /\ Len(calibReq) = call[p].a + 1
                      /\ \A j \in 1 .. call[p].a : calib[j] = LoadedCalib[j]
                /\ dev # "ready" => ~PublicCall(call[p])
                /\ dev \in {"none", "failed"} => (pc[p] = "idle" /\ call[p] = NoCall)
          /\ dev = "ready" =>
                /\ newErr = Nil
                /\ devModel \in hwModels
                /\ Len(calibReq) = NCalibRegs
                /\ calib = LoadedCalib
          /\ dev = "failed" =>
                /\ newErr \in {ErrOpenPort, ErrUnknownModel, IoErr(MaxAttempts)}
                /\ newErr = ErrUnknownModel => (calibReq = <<>> /\ devModel \notin hwModels)
                /\ devModel \notin hwModels => calibReq = <<>>
                /\ newErr = ErrOpenPort => calibReq = <<>>)
    /\ [][/\ dev = "failed" => (dev' = "failed" /\ calibReq' = calibReq)
          /\ dev = "ready" => (dev' = "ready" /\ calibReq' = calibReq)
          /\ \A p \in Procs :
                (pc[p] = "post" /\ call[p].name \in NewCalls /\ derr[p] # Nil) =>
                    /\ dev' = "failed"
                    /\ newErr' = derr[p]
                    /\ calibReq' = calibReq
       ]_vars

\* C6 witness: New failed at the third register, after all its retries
NewFailedMidway ==
    /\ dev = "failed"
    /\ newErr = IoErr(MaxAttempts)
    /\ calibReq = <<0, 1, 2>>

\* C7 (as claimed): sendCommand returns the first success or, after 8 failed
\* attempts, the error of the 8th, and every public operation then returns
\* that error to its caller.
ErrorsSurfaced ==
    \A p \in Procs :
        /\ pc[p] = "unlock" =>
              \/ derr[p] = Nil /\ rdr[p] = "resp"
              \/ derr[p] = IoErr(MaxAttempts) /\ sent[p] = MaxAttempts
        /\ (pc[p] = "done" /\ res[p].err \notin ValidationErrors \cup {Nil}) =>
              res[p].err = IoErr(MaxAttempts)
        /\ pc[p] # "panic"

\* C8: every index GetCalibIndex of model S returns without error is below
\* NCalibRegs = NOutputs + NHiddenOutputs + 2 * NInputs, the length of the
\* calibration array, so GetCalib never indexes out of range.
IndexInRange ==
    /\ NCalibRegs = NOutputs + NHiddenOutputs + 2 * NInputs
    /\ Len(calib) = NCalibRegs
    /\ ans.done =>
          /\ ans.r.err = Nil => (ans.r.idx >= 0 /\ ans.r.idx < NCalibRegs)
          /\ ans.cal # IndexPanic

\* C8 witness: the largest index, NCalibRegs - 1, has been returned
LastIndexReturned ==
    ans.done /\ ans.r.err = Nil /\ ans.r.idx = NCalibRegs - 1

OutputIdx == {GetCalibIndex(TRUE, FALSE, FALSE, n, 0).idx : n \in 1 .. NOutputs}
SingleIdx == {GetCalibIndex(FALSE, FALSE, FALSE, n, 0).idx : n \in 1 .. NInputs}
DiffIdx == {GetCalibIndex(FALSE, TRUE, FALSE, n, 0).idx : n \in 1 .. NInputs}

\* C9: for model S, output n in 1..NOutputs has index n - 1, input n in
\* 1..NInputs (first stage) has index NOutputs + n - 1 single-ended and
\* NOutputs + NInputs + n - 1 differential; the three ranges are pairwise
\* disjoint; the result does not depend on gainId.
LayoutFollowed ==
    /\ OutputIdx \cap SingleIdx = {}
    /\ OutputIdx \cap DiffIdx = {}
    /\ SingleIdx \cap DiffIdx = {}
    /\ ans.done =>
          /\ (qry.isOutput /\ qry.n \in 1 .. NOutputs) =>
                ans.r = IdxRes(qry.n - 1, Nil)
          /\ (~qry.isOutput /\ ~qry.secondStage /\ qry.n \in 1 .. NInputs) =>
                ans.r = IdxRes(IF qry.diffMode
                               THEN NOutputs + NInputs + qry.n - 1
                               ELSE NOutputs + qry.n - 1, Nil)
          /\ \A g \in 0 .. MaxGainArg :
                GetCalibIndex(qry.isOutput, qry.diffMode, qry.secondStage, qry.n, g)
                    = ans.r

\* C9 witness: the differential index of the last input has been returned
LastDiffIndexReturned ==
    /\ ans.done /\ ~qry.isOutput /\ qry.diffMode /\ ~qry.secondStage
    /\ qry.n = NInputs /\ qry.gainId = MaxGainArg
    /\ ans.r = IdxRes(NOutputs + 2 * NInputs - 1, Nil)

\* C10: GetCalibIndex of model S returns an error for n = 0, for an input
\* above NInputs, for an output above NOutputs and for every second-stage
\* input request; GetCalib then uses no stored entry (it answers Calib{1, 0}).
BadRequestsFail ==
    ans.done =>
        /\ (qry.isOutput /\ (qry.n = 0 \/ qry.n > NOutputs)) =>
              (ans.r.err = ErrInvalidOutput /\ ans.cal = IdentityCalib)
        /\ (~qry.isOutput /\ (qry.n = 0 \/ qry.n > NInputs \/ qry.secondStage)) =>
              (ans.r.err = ErrInvalidInput /\ ans.cal = IdentityCalib)

\* C10 witness: a second-stage request for a valid input has been refused
SecondStageRefused ==
    /\ ans.done /\ ~qry.isOutput /\ qry.secondStage /\ qry.n \in 1 .. NInputs
    /\ ans.r.err = ErrInvalidInput

\* A call refused by its operation's validation: it returned without a call
\* of sendCommand
Refused(p, err) ==
    /\ pc[p] = "done"
    /\ res[p].err = err
    /\ cmds[p] = 0 /\ sent[p] = 0 /\ frame[p] = NoFrame
\* A call that passed validation: it goes on to sendCommand
Passed(p) ==
    /\ ~(pc[p] = "done" /\ cmds[p] = 0)
    /\ res[p].err \notin ValidationErrors

\* The range of channel numbers of each operation, and its range error
ChannelRange(name) ==
    CASE name = "SetLED" -> 1 .. NLeds
      [] name \in {"SetDAC", "SetAnalog"} -> 1 .. (NOutputs + NHiddenOutputs)
      [] name \in {"SetPIO", "SetPIODir", "ReadPIO"} -> 1 .. NPIOs
      [] name = "ConfigureADC" -> 1 .. NInputs
      [] OTHER -> {}
ChannelError(name) ==
    CASE name = "SetLED" -> ErrInvalidLed
      [] name \in {"SetDAC", "SetAnalog"} -> ErrInvalidOutput
      [] name \in {"SetPIO", "SetPIODir", "ReadPIO"} -> ErrInvalidPIO
      [] OTHER -> ErrInvalidInput
ChannelOps ==
    {"SetLED", "SetDAC", "SetAnalog", "SetPIO", "SetPIODir", "ReadPIO", "ConfigureADC"}

\* C11: channel numbers are 1-based: SetLED passes exactly n in 1..NLeds,
\* SetDAC and SetAnalog exactly n in 1..NOutputs+NHiddenOutputs, SetPIO,
\* SetPIODir and ReadPIO exactly n in 1..NPIOs, ConfigureADC (negative input
\* and gain id valid) exactly a positive input in 1..NInputs; every other n,
\* 0 included, is refused with the operation's range error.
ChannelsOneBased ==
    \A p \in Procs :
        (call[p].name \in ChannelOps /\ call[p].b \in 0 .. 1 /\ call[p].c = 0) =>
            /\ 0 \notin ChannelRange(call[p].name)
            /\ IF call[p].a \in ChannelRange(call[p].name)
               THEN Passed(p)
               ELSE Refused(p, ChannelError(call[p].name))

\* C11 witness: the last PIO has been written, and so accepted
LastPIOAccepted ==
    \E p \in Procs :
        /\ call[p] = Call("SetPIO", NPIOs, 1, 0)
        /\ pc[p] = "done" /\ res[p].err = Nil /\ cmds[p] = 1
        /\ frame[p] = [num |-> PIO, data |-> <<NPIOs, 1>>]

PortOps == {"SetPortDir", "SetPort"}
PortOpcode(name) == IF name = "SetPort" THEN PORT ELSE PORT_DIR

\* C12: SetPort(v) and SetPortDir(v) are refused with the PIO-value error
\* exactly when v >= 2^NPIOs (= 64 for model S, so exactly 64..255); every
\* other v is sent by one call of sendCommand whose frames all carry v.
PortValueChecked ==
    \A p \in Procs :
        call[p].name \in PortOps =>
            /\ 2 ^ NPIOs = 64
            /\ IF call[p].a >= 2 ^ NPIOs
               THEN Refused(p, ErrInvalidPIOValue)
               ELSE /\ Passed(p)
                    /\ cmds[p] <= 1
                    /\ pc[p] \in {"post", "done"} => cmds[p] = 1
                    /\ sent[p] > 0 =>
                          frame[p] = [num |-> PortOpcode(call[p].name),
                                      data |-> <<call[p].a>>]
                    /\ frame[p] # NoFrame =>
                          frame[p] = [num |-> PortOpcode(call[p].name),
                                      data |-> <<call[p].a>>]

\* C12 witness: the largest value that fits, 2^NPIOs - 1, was sent
LargestPortValueSent ==
    \E p \in Procs :
        /\ call[p] = Call("SetPort", 2 ^ NPIOs - 1, 0, 0)
        /\ pc[p] = "done" /\ res[p].err = Nil
        /\ frame[p] = [num |-> PORT, data |-> <<63>>]

\* C13: once New has returned the Device, no step of any public operation,
\* succeeding or failing, changes an entry of the calibration array or its
\* length: the array stays as New read it.
CalibReadOnly ==
    /\ [](dev = "ready" => (calib = LoadedCalib /\ Len(calib) = NCalibRegs))
    /\ [][dev = "ready" =>
            /\ dev' = "ready"
            /\ Len(calib') = Len(calib)
            /\ \A i \in 1 .. Len(calib) : calib'[i] = calib[i]
       ]_vars

\* C13 witness: a ConfigureADC has failed and a ReadAnalog has converted, and
\* the array is as New read it
CalibKeptThroughCalls ==
    \E p, q \in Procs :
        /\ p # q
        /\ pc[p] = "done" /\ call[p].name = "ConfigureADC"
        /\ res[p].err = IoErr(MaxAttempts)
        /\ pc[q] = "done" /\ call[q].name = "ReadAnalog" /\ res[q].err = Nil
        /\ calib = LoadedCalib

\* C14: inside one call of sendCommand every failed attempt is flushed before
\* the next attempt is sent, and nothing is flushed after a successful
\* attempt: a flush follows a failed attempt only, an attempt is sent only
\* when every earlier one was flushed, and a call that succeeds on attempt
\* k + 1 has flushed exactly k times.
FlushBetweenAttempts ==
    /\ [](\A p \in Procs :
            /\ pc[p] = "try" => flushed[p] = sent[p]
            /\ pc[p] = "flush" => (derr[p] # Nil /\ sent[p] = flushed[p] + 1)
            /\ (pc[p] = "unlock" /\ derr[p] = Nil) =>
                  (sent[p] = att[p] /\ flushed[p] = att[p] - 1))
    /\ [][\A p \in Procs :
            /\ flushed'[p] > flushed[p] =>
                  /\ pc[p] = "flush" /\ derr[p] # Nil
                  /\ flushed'[p] = flushed[p] + 1
                  /\ sent'[p] = sent[p]
            /\ sent'[p] > sent[p] =>
                  /\ flushed[p] = sent[p]
                  /\ sent'[p] = sent[p] + 1
            /\ (pc[p] = "try" /\ pc'[p] = "unlock") =>
                  (derr'[p] = Nil /\ flushed'[p] = flushed[p])
       ]_vars

\* C14 witness: a call succeeded on its third attempt, after two flushes
SucceededAfterTwoFlushes ==
    \E p \in Procs :
        /\ pc[p] = "unlock" /\ derr[p] = Nil
        /\ sent[p] = 3 /\ flushed[p] = 2

\* A registration under an id that is taken is refused with an error and the
\* registry keeps the first model of every id
FirstRegistrationKept ==
    [][/\ \A id \in 1 .. MaxModelId :
            reg.models[id] # NoModel => reg'.models[id] = reg.models[id]
       /\ reg'.refused > reg.refused =>
            (reg'.models = reg.models /\ reg'.err = ErrAlreadyRegistered)
      ]_vars

\* C15 (as claimed): a registration under an id already registered is
\* refused and is fatal: no init function runs after the refused one and main
\* does not start.
DuplicateIsFatal ==
    reg.refused > 0 =>
        /\ reg.err = ErrAlreadyRegistered
        /\ reg.refused = 1
        /\ ~reg.started

\* C16: readCalib decodes register nReg with gain = 1 + rawGain / 2^16 and
\* with offset = rawOffs / 2^16 if nReg < NOutputs + NHiddenOutputs, else
\* offset = rawOffs / 2^5; raw fields both zero decode to gain 1, offset 0 in
\* both classes.  (Values are held in units of 2^-16.)
DecodeByClass ==
    dec.done =>
        /\ dec.out.Gain = Unit + dec.raw.Gain
        /\ IF dec.nReg < NOutputs + NHiddenOutputs
           THEN dec.out.Offset * (2 ^ 16) = dec.raw.Offs * Unit
           ELSE dec.out.Offset * (2 ^ 5) = dec.raw.Offs * Unit
        /\ (dec.raw.Gain = 0 /\ dec.raw.Offs = 0) => dec.out = IdentityCalib

\* C16 witness: the first input register, raw offset 1, decoded to 1/32
InputOffsetDecoded ==
    /\ dec.done
    /\ dec.nReg = NOutputs + NHiddenOutputs
    /\ dec.raw = [Gain |-> MaxInt16, Offs |-> 1]
    /\ dec.out = Calib(Unit + MaxInt16, Unit \div 32)

\* C17: from construction on and whatever ConfigureADC calls were made,
\* accepted or rejected, the stored configuration is valid (positive input in
\* 1..NInputs, gain id below the number of gains), so the first-stage lookup
\* of ReadAnalog finds a stored entry and never the fallback Calib{1, 0}.
StoredConfigValid ==
    /\ dev \in {"constructing", "ready"} =>
          /\ daq.posInput \in 1 .. NInputs
          /\ daq.gainId \in 0 .. NGains - 1
    /\ \A p \in Procs :
          (call[p].name = "ReadAnalog" /\ pc[p] = "r2d") =>
              LET r == GetCalibIndex(FALSE, loc[p].d, FALSE, loc[p].p, loc[p].g) IN
              /\ loc[p].p \in 1 .. NInputs
              /\ loc[p].g \in 0 .. NGains - 1
              /\ r.err = Nil
              /\ r.idx \in NOutputs .. NCalibRegs - 1
              /\ loc[p].cal1 = LoadedCalib[r.idx + 1]

\* C17 witness: after ConfigureADC(2, 3, 0) a ReadAnalog, alone on the Device,
\* has looked up the differential entry of input 2
DiffEntryLookedUp ==
    \E p \in Procs :
        /\ call[p].name = "ReadAnalog" /\ pc[p] = "r2d" /\ ~stale[p]
        /\ \A q \in Procs \ {p} : pc[q] = "idle"
        /\ loc[p].p = 2 /\ loc[p].d
        /\ loc[p].cal1 = LoadedCalib[NOutputs + NInputs + 2]

\* A ConfigureADC call that validation must reject
BadConfig(c) ==
    /\ c.name = "ConfigureADC"
    /\ (c.a \notin 1 .. NInputs \/ c.b > MaxNegInput \/ c.c >= NGains)

\* C18: a ConfigureADC call with an invalid input pair or a gain id not below
\* the number of gains returns the validation error, and no step of it changes
\* the stored positive input, differential flag or gain id.
RejectedConfigKeepsState ==
    /\ [](\A p \in Procs :
            BadConfig(call[p]) =>
                /\ pc[p] = "done"
                /\ res[p].err \in {ErrInvalidInput, ErrInvalidGainID})
    /\ [][\A p \in Procs :
            ((BadConfig(call[p]) \/ BadConfig(call'[p])) /\ pc'[p] # pc[p]) =>
                daq' = daq
       ]_vars

\* C18 witness: a ConfigureADC with an invalid gain id was rejected while the
\* configuration of ConfigureADC(2, 3, 0) is in force
RejectedUnderDiffConfig ==
    \E p \in Procs :
        /\ call[p] = Call("ConfigureADC", 1, 0, NGains)
        /\ pc[p] = "done" /\ res[p].err = ErrInvalidGainID
        /\ \A q \in Procs \ {p} : pc[q] = "idle"
        /\ daq = [posInput |-> 2, gainId |-> 0, diffMode |-> TRUE]

\* C19: GetCalib always answers: the stored entry calib[idx] when the model
\* gives an index, Calib{1, 0} when it refuses; the second-stage entry of a
\* ReadAnalog is Calib{1, 0}; SetAnalog on an output out of range has
\* converted with Calib{1, 0} when SetDAC refuses the channel.
GetCalibTotal ==
    /\ (dev = "ready" /\ \A p \in Procs : pc[p] = "idle") =>
          \A o \in BOOLEAN, d \in BOOLEAN, s \in BOOLEAN, n \in 0 .. MaxN :
              LET r == GetCalibIndex(o, d, s, n, 0) IN
              /\ GetCalib(o, d, s, n, 0) # IndexPanic
              /\ GetCalib(o, d, s, n, 0) =
                    IF r.err = Nil THEN calib[r.idx + 1] ELSE Calib(Unit, 0)
    /\ \A p \in Procs :
          /\ loc[p].cal1 # IndexPanic /\ loc[p].cal2 # IndexPanic
          /\ call[p].name = "SetAnalog" =>
                IF call[p].a \in 1 .. NOutputs
                THEN loc[p].cal1 = calib[call[p].a]
                ELSE /\ loc[p].cal1 = Calib(Unit, 0)
                     /\ pc[p] = "done" /\ res[p].err = ErrInvalidOutput
          /\ (call[p].name = "ReadAnalog" /\ pc[p] = "r3g") =>
                loc[p].cal2 = Calib(Unit, 0)

\* C19 witness: SetAnalog(2, ...) converted with Calib{1, 0} and was refused
IdentityUsedForBadOutput ==
    \E p \in Procs :
        /\ call[p] = Call("SetAnalog", 2, 0, 0)
        /\ pc[p] = "done" /\ res[p].err = ErrInvalidOutput
        /\ loc[p].cal1 = IdentityCalib
        /\ \E q \in Procs : call[q].name = "ReadAnalog" /\ pc[q] = "r3g"
                            /\ loc[q].cal2 = IdentityCalib

\* C20 (as claimed): every call of sendCommand that has the lock eventually
\* returns with the lock released, and every caller waiting for the lock
\* eventually gets it and sends its command.
CallsComplete ==
    /\ \A p \in Procs :
          (pc[p] \in InDispatcher) ~> (pc[p] = "post" /\ lockHolder # p)
    /\ \A p \in Procs :
          (pc[p] = "lock") ~> (pc[p] = "try" /\ lockHolder = p)

====
